---- MODULE Spec2Model ----
(***************************************************************************)
(* FirestoreAdminClient (src/mod.ts): the document/value codec, the        *)
(* structured-query construction and the request handlers of the client.   *)
(*                                                                         *)
(* JavaScript values are modelled as tagged records:                       *)
(*   [t |-> "string", s |-> <<pieces>>]   a string, as the sequence of its *)
(*       pieces: every "/" is a piece of its own, no other piece is split  *)
(*   [t |-> "number", nan, x2]            a number, x2 = twice its value   *)
(*   [t |-> "boolean", b]   [t |-> "null"]   [t |-> "undefined"]           *)
(*   [t |-> "date", d]                    a Date (index into DateISO)      *)
(*   [t |-> "function"]                   a function value                 *)
(*   [t |-> "array", items |-> <<values>>]                                 *)
(*   [t |-> "object", props |-> <<[k, v], ...>>]  own properties in order  *)
(* A thrown exception is the record [t |-> "throw", name, msg].            *)
(***************************************************************************)
EXTENDS Integers, Sequences, FiniteSets, TLC

VARIABLES
    accessToken,   \* this.accessToken
    tokenExpiry,   \* this.tokenExpiry
    credentials,   \* this.jwtClient: the tokens its last authorize() resolved to
    now,           \* the clock read by Date.now()
    calls,         \* the API calls of the client: position and live locals
    fn,            \* codec harness: the private method last applied
    arg,           \* codec harness: its argument
    out,           \* codec harness: what it returned (or threw)
    back           \* codec harness: documentToJson of the encoder's output

vars == <<accessToken, tokenExpiry, credentials, now, calls, fn, arg, out, back>>
clientVars == <<accessToken, tokenExpiry, credentials, now, calls>>
codecVars == <<fn, arg, out, back>>

(***************************************************************************)
(* Bounds of the model.                                                    *)
(***************************************************************************)
MaxNodes == 3       \* nodes (values) in a native value drawn for the codec
MaxEnvelopes == 2   \* envelopes / documents in a response
MaxFilters == 2     \* filter clauses in a query specification
MaxTime == 1        \* clock ticks

(***************************************************************************)
(* JavaScript values.                                                      *)
(***************************************************************************)
JStr(pieces) == [t |-> "string", s |-> pieces]
JNum(n) == [t |-> "number", nan |-> FALSE, x2 |-> 2 * n]
JHalf(h) == [t |-> "number", nan |-> FALSE, x2 |-> h]
JNaN == [t |-> "number", nan |-> TRUE, x2 |-> 0]
JBool(b) == [t |-> "boolean", b |-> b]
JNull == [t |-> "null"]
JUndef == [t |-> "undefined"]
JDate(d) == [t |-> "date", d |-> d]
JFun == [t |-> "function"]
JArr(items) == [t |-> "array", items |-> items]
JObj(props) == [t |-> "object", props |-> props]
Prop(k, v) == [k |-> k, v |-> v]
Obj1(k, v) == JObj(<<Prop(k, v)>>)
Throw(name, msg) == [t |-> "throw", name |-> name, msg |-> msg]
IsThrow(v) == v.t = "throw"
Nil == [t |-> "nil"]   \* no value (yet); not a JavaScript value

\* typeof value
TypeOf(v) ==
    CASE v.t \in {"string", "number", "boolean", "undefined", "function"} -> v.t
      [] v.t \in {"null", "date", "array", "object"} -> "object"

\* ToBoolean(value), as used by !x, x || y and if (x)
Truthy(v) ==
    CASE v.t = "string" -> v.s # <<>>
      [] v.t = "number" -> ~v.nan /\ v.x2 # 0
      [] v.t = "boolean" -> v.b
      [] v.t \in {"null", "undefined"} -> FALSE
      [] v.t \in {"date", "function", "array", "object"} -> TRUE

Nullish(v) == v.t \in {"null", "undefined"}
NumberIsInteger(v) == v.t = "number" /\ ~v.nan /\ v.x2 % 2 = 0
\* isNaN(value) on a number
IsNaN(v) == v.t = "number" /\ v.nan

\* The decimal keys of array indices.
IdxKey == <<"0", "1", "2", "3", "4", "5">>

\* The own enumerable string keys of a value, in for...in / Object.keys order.
\* (A non-empty string has index keys as well; no caller here enumerates one.)
Keys(v) ==
    CASE v.t = "object" -> [i \in 1..Len(v.props) |-> v.props[i].k]
      [] v.t = "array" -> [i \in 1..Len(v.items) |-> IdxKey[i]]
      [] v.t \in {"number", "boolean", "date", "function"} -> <<>>
      [] v.t = "string" /\ v.s = <<>> -> <<>>

HasKey(v, k) == \E i \in 1..Len(Keys(v)) : Keys(v)[i] = k

\* The methods a value inherits from its prototype, by the type of the value
\* (ECMAScript standard library; __proto__ is left out).
ObjectPrototype ==
    {"constructor", "hasOwnProperty", "isPrototypeOf", "propertyIsEnumerable",
     "toLocaleString", "toString", "valueOf", "__defineGetter__",
     "__defineSetter__", "__lookupGetter__", "__lookupSetter__"}
ArrayPrototype ==
    {"at", "concat", "copyWithin", "entries", "every", "fill", "filter", "find",
     "findIndex", "findLast", "findLastIndex", "flat", "flatMap", "forEach",
     "includes", "indexOf", "join", "keys", "lastIndexOf", "map", "pop", "push",
     "reduce", "reduceRight", "reverse", "shift", "slice", "some", "sort",
     "splice", "toReversed", "toSorted", "toSpliced", "unshift", "values", "with"}
StringPrototype ==
    {"anchor", "at", "big", "blink", "bold", "charAt", "charCodeAt",
     "codePointAt", "concat", "endsWith", "fixed", "fontcolor", "fontsize",
     "includes", "indexOf", "isWellFormed", "italics", "lastIndexOf", "link",
     "localeCompare", "match", "matchAll", "normalize", "padEnd", "padStart",
     "repeat", "replace", "replaceAll", "search", "slice", "small", "split",
     "strike", "sub", "substr", "substring", "sup", "startsWith",
     "toLocaleLowerCase", "toLocaleUpperCase", "toLowerCase", "toUpperCase",
     "toWellFormed", "trim", "trimEnd", "trimLeft", "trimRight", "trimStart"}
NumberPrototype == {"toExponential", "toFixed", "toPrecision"}
DatePrototype ==
    {"getDate", "getDay", "getFullYear", "getHours", "getMilliseconds",
     "getMinutes", "getMonth", "getSeconds", "getTime", "getTimezoneOffset",
     "getUTCDate", "getUTCDay", "getUTCFullYear", "getUTCHours",
     "getUTCMilliseconds", "getUTCMinutes", "getUTCMonth", "getUTCSeconds",
     "getYear", "setDate", "setFullYear", "setHours", "setMilliseconds",
     "setMinutes", "setMonth", "setSeconds", "setTime", "setUTCDate",
     "setUTCFullYear", "setUTCHours", "setUTCMilliseconds", "setUTCMinutes",
     "setUTCMonth", "setUTCSeconds", "setYear", "toDateString", "toGMTString",
     "toISOString", "toJSON", "toLocaleDateString", "toLocaleTimeString",
     "toTimeString", "toUTCString"}
FunctionPrototype == {"apply", "bind", "call"}

Inherited ==
    [t \in {"object", "boolean", "array", "string", "number", "date", "function"} |->
        ObjectPrototype
        \cup CASE t = "array" -> ArrayPrototype
               [] t = "string" -> StringPrototype
               [] t = "number" -> NumberPrototype
               [] t = "date" -> DatePrototype
               [] t = "function" -> FunctionPrototype
               [] t \in {"object", "boolean"} -> {}]

\* The own properties of a value that the model reads by key. The characters
\* of a string and the name and length of a function are not modelled: the
\* index and length keys of a non-empty string, and the name and length keys
\* of a function, are in no case of Get, as __proto__ is in none.
HasOwn(v, k) ==
    CASE v.t = "object" -> \E i \in 1..Len(v.props) : v.props[i].k = k
      [] v.t = "array" -> k = "length" \/ \E i \in 1..Len(v.items) : IdxKey[i] = k
      [] v.t = "string" /\ v.s = <<>> -> k = "length"
      [] v.t = "string" /\ v.s # <<>>
           /\ k # "length" /\ \A i \in 1..Len(IdxKey) : IdxKey[i] # k -> FALSE
      [] v.t = "function" /\ k \notin {"name", "length"} -> FALSE
      [] v.t \in {"number", "boolean", "date"} -> FALSE

\* value[key] on a value that is not null or undefined: the own property,
\* else the inherited method, else undefined.
Get(v, k) ==
    CASE k # "__proto__" /\ HasOwn(v, k) ->
            IF v.t = "object"
            THEN v.props[CHOOSE i \in 1..Len(v.props) : v.props[i].k = k].v
            ELSE IF k = "length"
            THEN JNum(IF v.t = "array" THEN Len(v.items) ELSE 0)
            ELSE v.items[CHOOSE i \in 1..Len(v.items) : IdxKey[i] = k]
      [] k # "__proto__" /\ ~HasOwn(v, k) ->
            IF k \in Inherited[v.t] THEN JFun ELSE JUndef

\* obj[key] = value on an object: an existing key keeps its place
SetProp(o, k, v) ==
    IF \E i \in 1..Len(o.props) : o.props[i].k = k
    THEN JObj([i \in 1..Len(o.props) |->
                 IF o.props[i].k = k THEN Prop(k, v) ELSE o.props[i]])
    ELSE JObj(Append(o.props, Prop(k, v)))

\* The first thrown element of a sequence of results, if any.
FirstThrow(seq) == seq[CHOOSE i \in 1..Len(seq) :
                        IsThrow(seq[i]) /\ \A j \in 1..(i - 1) : ~IsThrow(seq[j])]
AnyThrow(seq) == \E i \in 1..Len(seq) : IsThrow(seq[i])

\* Date.prototype.toJSON of the dates of the model: the ISO-8601 string.
DateISO == << <<"1990-01-01T12:50:00.000Z">>, <<"2024-12-02T00:00:00.000Z">> >>
toJSON(v) == JStr(DateISO[v.d])

NULL_VALUE == <<"NULL_VALUE">>

(***************************************************************************)
(* encodeValue (query filter values)                                        *)
(***************************************************************************)
RECURSIVE encodeValue(_)
encodeValue(value) ==
    CASE value.t = "string" -> Obj1("stringValue", value)
      [] value.t = "number" ->
            IF NumberIsInteger(value)
            THEN Obj1("integerValue", value)
            ELSE Obj1("doubleValue", value)
      [] value.t = "boolean" -> Obj1("booleanValue", value)
      [] value.t = "null" -> Obj1("nullValue", JStr(NULL_VALUE))
      [] value.t = "array" ->
            LET enc == [i \in 1..Len(value.items) |-> encodeValue(value.items[i])]
            IN  IF AnyThrow(enc) THEN FirstThrow(enc)
                ELSE Obj1("arrayValue", Obj1("values", JArr(enc)))
      [] OTHER -> Throw("Error", <<"Unsupported value type", TypeOf(value)>>)

(***************************************************************************)
(* jsonToDocument (whole-object encoder)                                    *)
(***************************************************************************)
RECURSIVE jsonToDocument(_)
RECURSIVE jsonToDocumentField(_)

\* Mutant of jsonToDocumentNumber: the number branch without the NaN catch.
jsonToDocumentNumber_NoCatch(value) ==
    IF NumberIsInteger(value)
    THEN Obj1("integerValue", value)
    ELSE Obj1("doubleValue", value)

\* The number branch: the tag by Number.isInteger, NaN replaced by 0 / 0.00.
\* (Number.isInteger(NaN) is false, so the first catch never applies.)
jsonToDocumentNumber(value) ==
    IF NumberIsInteger(value)
    THEN Obj1("integerValue", IF IsNaN(value) THEN JNum(0) ELSE value)
    ELSE Obj1("doubleValue", IF IsNaN(value) THEN JNum(0) ELSE value)

\* The body of the forEach callback: the wire value stored under the key.
jsonToDocumentField(value) ==
    CASE value.t = "string" -> Obj1("stringValue", value)
      [] value.t = "number" -> jsonToDocumentNumber(value)
      [] value.t = "date" -> Obj1("timestampValue", toJSON(value))
      [] value.t = "boolean" -> Obj1("booleanValue", value)
      [] value.t \in {"null", "undefined"} -> Obj1("nullValue", value)
      [] value.t = "array" ->
            LET docs == [i \in 1..Len(value.items) |->
                           jsonToDocument(Obj1("value", value.items[i]))]
            IN  IF AnyThrow(docs) THEN FirstThrow(docs)
                ELSE Obj1("arrayValue", Obj1("values",
                        JArr([i \in 1..Len(docs) |->
                                Get(Get(docs[i], "fields"), "value")])))
      [] value.t = "object" ->
            LET doc == jsonToDocument(value)
            IN  IF IsThrow(doc) THEN doc
                ELSE Obj1("mapValue", Obj1("fields", Get(doc, "fields")))
      [] OTHER -> Throw("Error", <<"Unsupported type for value", TypeOf(value)>>)

jsonToDocument(json) ==
    LET keys == Keys(json)
        enc == [i \in 1..Len(keys) |-> jsonToDocumentField(Get(json, keys[i]))]
    IN  IF AnyThrow(enc) THEN FirstThrow(enc)
        ELSE Obj1("fields", JObj([i \in 1..Len(keys) |-> Prop(keys[i], enc[i])]))

(***************************************************************************)
(* documentToJson (decoder)                                                 *)
(***************************************************************************)
DocumentTypes == {"stringValue", "booleanValue", "doubleValue", "integerValue",
                  "timestampValue", "mapValue", "arrayValue", "nullValue"}
ItemTypes == {"stringValue", "booleanValue", "doubleValue", "integerValue",
              "timestampValue", "nullValue"}

TypeErr == Throw("TypeError", <<"Cannot read properties">>)
\* documentToJson of a non-empty string recurses on its first character forever.
RangeErr == Throw("RangeError", <<"Maximum call stack size exceeded">>)

RECURSIVE documentToJson(_)
RECURSIVE documentToJsonLoop(_, _, _)

\* The for...in loop from its i-th key on, with the result built so far.
documentToJsonLoop(fields, i, result) ==
    IF i > Len(Keys(fields)) THEN result
    ELSE
      LET key == Keys(fields)[i]
          value == Get(fields, key)
      IN  IF key \in DocumentTypes
          THEN
            IF key \in ItemTypes THEN value
            ELSE IF key = "mapValue"
            THEN IF Nullish(value) THEN TypeErr
                 ELSE IF Truthy(Get(value, "fields"))
                      THEN documentToJson(Get(value, "fields"))
                      ELSE documentToJson(JObj(<<>>))
            ELSE \* "arrayValue": !list ? list?.map(...) : []
                 IF Nullish(value) THEN TypeErr
                 ELSE LET list == Get(value, "values")
                      IN  IF Truthy(list) THEN JArr(<<>>)
                          ELSE IF Nullish(list) THEN JUndef
                          ELSE Throw("TypeError", <<"list?.map is not a function">>)
          ELSE
            LET sub == documentToJson(value)
            IN  IF IsThrow(sub) THEN sub
                ELSE documentToJsonLoop(fields, i + 1, SetProp(result, key, sub))

documentToJson(fields) ==
    IF ~Truthy(fields) THEN JObj(<<>>)
    ELSE IF fields.t = "string" THEN RangeErr
    ELSE documentToJsonLoop(fields, 1, JObj(<<>>))

(***************************************************************************)
(* Strings: split and join.                                                *)
(***************************************************************************)
\* s.split(sep).pop(): the piece after the last occurrence of sep found by
\* the left-to-right scan of split (sep not empty).
RECURSIVE SplitPopFrom(_, _, _, _)
SplitPopFrom(s, sep, i, start) ==
    IF i + Len(sep) - 1 > Len(s) THEN SubSeq(s, start, Len(s))
    ELSE IF SubSeq(s, i, i + Len(sep) - 1) = sep
         THEN SplitPopFrom(s, sep, i + Len(sep), i + Len(sep))
         ELSE SplitPopFrom(s, sep, i + 1, start)
SplitPop(s, sep) == JStr(SplitPopFrom(s.s, sep, 1, 1))

\* array.join(sep) of an array of strings, as pieces
RECURSIVE JoinFrom(_, _, _)
JoinFrom(items, sep, i) ==
    IF i > Len(items) THEN <<>>
    ELSE IF i = Len(items) THEN items[i].s
    ELSE items[i].s \o sep \o JoinFrom(items, sep, i + 1)

\* `${value}` for the values the handlers interpolate
TemplateString(v) ==
    CASE v.t = "string" -> v.s
      [] v.t = "undefined" -> <<"undefined">>
      [] v.t = "null" -> <<"null">>

\* JSON.stringify(value), as the value the text parses back to; JUndef where
\* stringify yields undefined (the property is then left out).
RECURSIVE JSONStringify(_)
JSONStringifyProps(props, done) ==
    [i \in 1..Len(done) |-> Prop(props[i].k, done[i])]
RECURSIVE KeepDefined(_)
KeepDefined(props) ==
    IF props = <<>> THEN <<>>
    ELSE IF Head(props).v = JUndef THEN KeepDefined(Tail(props))
    ELSE <<Head(props)>> \o KeepDefined(Tail(props))
JSONStringify(v) ==
    CASE v.t \in {"string", "boolean", "null"} -> v
      [] v.t = "number" -> IF v.nan THEN JNull ELSE v
      [] v.t \in {"undefined", "function"} -> JUndef
      [] v.t = "date" -> toJSON(v)
      [] v.t = "array" ->
            JArr([i \in 1..Len(v.items) |->
                    LET e == JSONStringify(v.items[i])
                    IN  IF e = JUndef THEN JNull ELSE e])
      [] v.t = "object" ->
            JObj(KeepDefined(JSONStringifyProps(v.props,
                    [i \in 1..Len(v.props) |-> JSONStringify(v.props[i].v)])))

(***************************************************************************)
(* The structured query of getDocumentsInCollection.                       *)
(***************************************************************************)
AND == <<"AND">>
ASCENDING == <<"ASCENDING">>

\* One element of options.where.filters.map: ([field, op, value]) => ...
fieldFilter(clause) ==
    LET field == Get(clause, "0")
        op == Get(clause, "1")
        value == encodeValue(Get(clause, "2"))
    IN  IF IsThrow(value) THEN value
        ELSE Obj1("fieldFilter",
                  JObj(<<Prop("field", Obj1("fieldPath", field)),
                         Prop("op", op),
                         Prop("value", value)>>))

\* Mutant of whereNode: the composite operator follows the caller's operator.
whereNode_CallerOperator(where) ==
    LET filters == Get(where, "filters")
        leaves == [i \in 1..Len(filters.items) |-> fieldFilter(filters.items[i])]
    IN  IF AnyThrow(leaves) THEN FirstThrow(leaves)
        ELSE Obj1("compositeFilter",
                  JObj(<<Prop("op", IF Truthy(Get(where, "operator"))
                                    THEN Get(where, "operator") ELSE JStr(AND)),
                         Prop("filters", JArr(leaves))>>))

\* structuredQuery.where
whereNode(where) ==
    LET filters == Get(where, "filters")
        leaves == [i \in 1..Len(filters.items) |-> fieldFilter(filters.items[i])]
    IN  IF AnyThrow(leaves) THEN FirstThrow(leaves)
        ELSE Obj1("compositeFilter",
                  JObj(<<Prop("op", JStr(AND)),
                         Prop("filters", JArr(leaves))>>))

\* structuredQuery.orderBy: direction defaults to "ASCENDING" when undefined
orderByNode(orderBy) ==
    JArr([i \in 1..Len(orderBy.items) |->
            LET field == Get(orderBy.items[i], "field")
                given == Get(orderBy.items[i], "direction")
                direction == IF given = JUndef THEN JStr(ASCENDING) ELSE given
            IN  JObj(<<Prop("field", Obj1("fieldPath", field)),
                       Prop("direction", direction)>>)])

\* Mutant of structuredQuery: limit and offset are tested for truthiness, so a
\* value of 0 is left out.
structuredQuery_TruthyLimit(path, options) ==
    LET q0 == Obj1("from",
                   JArr(<<JObj(<<Prop("collectionId", path),
                                 Prop("allDescendants", JBool(FALSE))>>)>>))
        where == IF Truthy(Get(options, "where"))
                 THEN whereNode(Get(options, "where")) ELSE Nil
        q1 == IF where = Nil THEN q0 ELSE SetProp(q0, "where", where)
        q2 == IF Truthy(Get(options, "orderBy"))
              THEN SetProp(q1, "orderBy", orderByNode(Get(options, "orderBy")))
              ELSE q1
        q3 == IF Truthy(Get(options, "limit"))
              THEN SetProp(q2, "limit", Obj1("value", Get(options, "limit")))
              ELSE q2
        q4 == IF Truthy(Get(options, "offset"))
              THEN SetProp(q3, "offset", Get(options, "offset"))
              ELSE q3
    IN  IF where # Nil /\ IsThrow(where) THEN where ELSE q4

\* The structuredQuery object built from truthy options, or what it throws.
structuredQuery(path, options) ==
    LET q0 == Obj1("from",
                   JArr(<<JObj(<<Prop("collectionId", path),
                                 Prop("allDescendants", JBool(FALSE))>>)>>))
        where == IF Truthy(Get(options, "where"))
                 THEN whereNode(Get(options, "where")) ELSE Nil
        q1 == IF where = Nil THEN q0 ELSE SetProp(q0, "where", where)
        q2 == IF Truthy(Get(options, "orderBy"))
              THEN SetProp(q1, "orderBy", orderByNode(Get(options, "orderBy")))
              ELSE q1
        q3 == IF Get(options, "limit") # JUndef
              THEN SetProp(q2, "limit", Obj1("value", Get(options, "limit")))
              ELSE q2
        q4 == IF Get(options, "offset") # JUndef
              THEN SetProp(q3, "offset", Get(options, "offset"))
              ELSE q3
    IN  IF where # Nil /\ IsThrow(where) THEN where ELSE q4

(***************************************************************************)
(* What the handlers make of a response body (data = await response.json()) *)
(* Each gives [result, reported]: the value returned or the exception       *)
(* thrown, and the lines errorHandler wrote to console.error.               *)
(***************************************************************************)
firestoreBaseUrl == <<"https://content-firestore.googleapis.com/v1/projects/p/databases/(default)/documents">>

\* value?.[key]
OptGet(v, k) == IF Nullish(v) THEN JUndef ELSE Get(v, k)

\* errorHandler(error, call): the console.error line
errorHandler(error, call) ==
    [call |-> call,
     errorCode |-> Get(error, "code"),
     errorMessage |-> JStr(TemplateString(Get(error, "message")) \o <<"\n">>)]

\* What a handler leaves behind once the response is read: the value returned
\* or thrown, the console.error lines, and the parsed body as the handler
\* holds it at the end (listDocumentsInCollection writes into it).
Outcome(result, reported, data) ==
    [result |-> result, reported |-> reported, data |-> data]

\* if (data?.error) this.errorHandler(data.error, call)
ReportIfError(data, call) ==
    IF Truthy(OptGet(data, "error"))
    THEN <<errorHandler(Get(data, "error"), JStr(<<call>>))>>
    ELSE <<>>

\* createDocument, after the fetch
createDocumentResult(data) ==
    Outcome(data, ReportIfError(data, "createDocument"), data)

\* updateDocument, after the fetch
updateDocumentResult(data) ==
    Outcome(data, ReportIfError(data, "updateDocument"), data)

\* data.documents?.map((doc) => doc.name.split(`${path}/`).pop()) ?? []
\* (a documents object carrying a map function of its own is not modelled)
documentIds(path, documents) ==
    CASE Nullish(documents) -> JArr(<<>>)
      [] documents.t = "array" ->
            IF \E i \in 1..Len(documents.items) :
                   Nullish(documents.items[i])
                   \/ Get(documents.items[i], "name").t # "string"
            THEN TypeErr
            ELSE JArr([i \in 1..Len(documents.items) |->
                         SplitPop(Get(documents.items[i], "name"),
                                  path.s \o <<"/">>)])
      [] ~Nullish(documents) /\ documents.t # "array"
           /\ Get(documents, "map").t # "function" ->
            Throw("TypeError", <<"data.documents?.map is not a function">>)

\* listDocumentsInCollection, after the fetch. The ids are written into the
\* body (data.documents = ...) and that same array is returned; the module is
\* strict code, so the write throws on a string, a number or a boolean. A
\* body that is an array, a Date or a function is not modelled.
listDocumentsInCollectionResult(path, data) ==
    LET reported == ReportIfError(data, "listDocumentsInCollection")
        ids == documentIds(path, Get(data, "documents"))
    IN  IF Nullish(data) THEN Outcome(TypeErr, reported, data)
        ELSE IF IsThrow(ids) THEN Outcome(ids, reported, data)
        ELSE CASE data.t = "object" ->
                    Outcome(ids, reported, SetProp(data, "documents", ids))
               [] data.t \in {"string", "number", "boolean"} ->
                    Outcome(Throw("TypeError",
                                  <<"Cannot create property 'documents'">>),
                            reported, data)

\* getDocument, after the fetch
getDocumentResult(data) ==
    LET reported == ReportIfError(data, "getDocument")
    IN  IF Nullish(data) THEN Outcome(TypeErr, reported, data)
        ELSE Outcome(documentToJson(Get(data, "fields")), reported, data)

\* Mutant of documentWithId: the identifier first, the decoded fields after it.
documentWithId_IdFirst(decoded, docId) ==
    LET spread == IF Nullish(decoded) THEN <<>>
                  ELSE [i \in 1..Len(Keys(decoded)) |->
                          Prop(Keys(decoded)[i], Get(decoded, Keys(decoded)[i]))]
    IN  IF \E i \in 1..Len(spread) : spread[i].k = "_id"
        THEN JObj(<<CHOOSE pr \in {spread[i] : i \in 1..Len(spread)} : pr.k = "_id">>
                  \o SelectSeq(spread, LAMBDA pr : pr.k # "_id"))
        ELSE JObj(<<Prop("_id", docId)>> \o spread)

\* { ...decoded, _id: docId }
documentWithId(decoded, docId) ==
    LET spread == IF Nullish(decoded) THEN <<>>
                  ELSE [i \in 1..Len(Keys(decoded)) |->
                          Prop(Keys(decoded)[i], Get(decoded, Keys(decoded)[i]))]
    IN  SetProp(JObj(spread), "_id", docId)

UNKNOWN == <<"unknown">>

\* The callback of data.map in the query branch, for one envelope.
queryElement(doc) ==
    LET document == Get(doc, "document")
        name == OptGet(document, "name")
        fields == IF Truthy(OptGet(document, "fields"))
                  THEN Get(document, "fields") ELSE JObj(<<>>)
        decoded == documentToJson(fields)
    IN  IF ~Nullish(document) /\ name.t # "string" THEN TypeErr
        ELSE IF IsThrow(decoded) THEN decoded
        ELSE documentWithId(decoded,
                            IF Nullish(document) THEN JStr(UNKNOWN)
                            ELSE SplitPop(name, <<"/">>))

\* The callback of data.documents.map in the branch without options.
listElement(doc) ==
    LET name == Get(doc, "name")
        fields == IF Truthy(Get(doc, "fields")) THEN Get(doc, "fields") ELSE JObj(<<>>)
        decoded == documentToJson(fields)
    IN  IF name.t # "string" THEN TypeErr
        ELSE IF IsThrow(decoded) THEN decoded
        ELSE documentWithId(decoded, SplitPop(name, <<"/">>))

\* array.map(f) with f already applied: the array, or the first exception
MapResult(elems) == IF AnyThrow(elems) THEN FirstThrow(elems) ELSE JArr(elems)

\* The call label of the query branch: `${firestoreBaseUrl}/${path}:runQuery`
runQueryLabel(path) == JStr(firestoreBaseUrl \o <<"/">> \o path.s \o <<":runQuery">>)

\* data.map(...) of the query branch: an array maps, a value without a map
\* function throws (a body carrying a map function of its own is not modelled)
queryMap(data) ==
    CASE data.t = "array" ->
            MapResult([i \in 1..Len(data.items) |-> queryElement(data.items[i])])
      [] data.t # "array" /\ Get(data, "map").t # "function" ->
            Throw("TypeError", <<"data.map is not a function">>)

\* value == 1, the loose comparison of line 204. Of the strings only "1" and
\* "" are decided (the number another piece reads as is not modelled), of the
\* arrays only the empty one, of the objects those without a toString or
\* valueOf of their own.
LooseEqualsOne(v) ==
    CASE v.t = "number" -> ~v.nan /\ v.x2 = 2
      [] v.t = "boolean" -> v.b
      [] v.t = "string" /\ v.s = <<"1">> -> TRUE
      [] v.t = "string" /\ v.s = <<>> -> FALSE
      [] v.t \in {"null", "undefined", "date", "function"} -> FALSE
      [] v.t = "array" /\ v.items = <<>> -> FALSE
      [] v.t = "object" /\ ~HasKey(v, "toString") /\ ~HasKey(v, "valueOf") -> FALSE

\* The query branch after its error check: lines 203-215.
queryRows(data) ==
    IF Nullish(data) THEN TypeErr
    ELSE IF LooseEqualsOne(Get(data, "length"))
         THEN (IF Nullish(Get(data, "0")) THEN TypeErr
               ELSE IF ~Truthy(Get(Get(data, "0"), "document")) THEN JArr(<<>>)
               ELSE queryMap(data))
    ELSE queryMap(data)

\* Mutant of queryResult: the error is reported and the rows are mapped anyway.
queryResult_NoReturn(path, data) ==
    LET first == OptGet(data, "0")
        error == IF Nullish(OptGet(data, "error"))
                 THEN OptGet(first, "error") ELSE Get(data, "error")
    IN  IF Truthy(OptGet(data, "error")) \/ Truthy(OptGet(first, "error"))
        THEN Outcome(queryRows(data), <<errorHandler(error, runQueryLabel(path))>>,
                     data)
        ELSE Outcome(queryRows(data), <<>>, data)

\* getDocumentsInCollection with options, after the fetch
queryResult(path, data) ==
    LET first == OptGet(data, "0")
        error == IF Nullish(OptGet(data, "error"))
                 THEN OptGet(first, "error") ELSE Get(data, "error")
    IN  IF Truthy(OptGet(data, "error")) \/ Truthy(OptGet(first, "error"))
        THEN Outcome(JArr(<<>>), <<errorHandler(error, runQueryLabel(path))>>,
                     data)
        ELSE Outcome(queryRows(data), <<>>, data)

\* getDocumentsInCollection without options, after the fetch
collectionResult(data) ==
    LET reported == ReportIfError(data, "listDocumentsInCollection")
        documents == OptGet(data, "documents")
    IN  IF Nullish(data) \/ documents.t # "array"
        THEN Outcome(TypeErr, reported, data)
        ELSE Outcome(MapResult([i \in 1..Len(documents.items) |->
                                  listElement(documents.items[i])]),
                     reported, data)

(***************************************************************************)
(* The codec applied to bounded native values.                             *)
(***************************************************************************)
StrA == JStr(<<"A">>)
CodecAtoms == {StrA, JNum(20), JHalf(3), JNaN, JBool(TRUE), JBool(FALSE),
               JNull, JUndef, JDate(2), JFun}
CodecKeys == {"a", "stringValue", "mapValue", "arrayValue"}

\* Sequences of length n without repetition over the set S.
RECURSIVE InjSeqs(_, _)
InjSeqs(S, n) ==
    IF n = 0 THEN {<<>>}
    ELSE UNION {{<<x>> \o r : r \in InjSeqs(S \ {x}, n - 1)} : x \in S}

\* Native values of exactly n nodes; sequences of len values of n nodes in all.
RECURSIVE ValuesOfSize(_)
RECURSIVE SeqsOfSize(_, _)
SeqsOfSize(n, len) ==
    IF len = 0 THEN (IF n = 0 THEN {<<>>} ELSE {})
    ELSE UNION {LET A == ValuesOfSize(k)
                    B == SeqsOfSize(n - k, len - 1)
                IN  {<<v>> \o r : v \in A, r \in B}
                : k \in 1..(n - len + 1)}
ValuesOfSize(n) ==
    IF n = 1 THEN CodecAtoms \cup {JArr(<<>>), JObj(<<>>)}
    ELSE UNION {LET S == SeqsOfSize(n - 1, len)
                    K == InjSeqs(CodecKeys, len)
                IN  {JArr(s) : s \in S}
                    \cup {JObj([i \in 1..len |-> Prop(ks[i], s[i])])
                             : ks \in K, s \in S}
                : len \in 1..(n - 1)}
\* v is a native value of at most MaxNodes nodes.
IsNativeValue(v) ==
    \/ v \in ValuesOfSize(1)
    \/ \E n \in 2..MaxNodes, len \in 1..(MaxNodes - 1) :
          \E s \in SeqsOfSize(n - 1, len) :
             \/ v = JArr(s)
             \/ \E ks \in InjSeqs(CodecKeys, len) :
                   v = JObj([i \in 1..len |-> Prop(ks[i], s[i])])

ClientIdle ==
    /\ accessToken = JNull
    /\ tokenExpiry = 0
    /\ credentials = JObj(<<>>)
    /\ now = 1
    /\ calls = <<>>

CodecInit ==
    /\ ClientIdle
    /\ fn = "none"
    /\ IsNativeValue(arg)
    /\ out = Nil
    /\ back = Nil

\* this.encodeValue(arg)
EncodeValue ==
    /\ fn = "none"
    /\ fn' = "encodeValue"
    /\ out' = encodeValue(arg)
    /\ UNCHANGED <<arg, back, clientVars>>

\* this.jsonToDocument(arg), arg an object
JsonToDocument ==
    /\ fn = "none"
    /\ arg.t = "object"
    /\ fn' = "jsonToDocument"
    /\ out' = jsonToDocument(arg)
    /\ UNCHANGED <<arg, back, clientVars>>

\* this.documentToJson(arg), arg read as a wire structure
DocumentToJson ==
    /\ fn = "none"
    /\ fn' = "documentToJson"
    /\ out' = documentToJson(arg)
    /\ UNCHANGED <<arg, back, clientVars>>

\* this.documentToJson of what the encoder returned: of the wire value of
\* encodeValue, of the fields of the document of jsonToDocument
DecodeEncoded ==
    /\ fn \in {"encodeValue", "jsonToDocument"}
    /\ ~IsThrow(out)
    /\ back = Nil
    /\ back' = IF fn = "jsonToDocument"
               THEN documentToJson(Get(out, "fields"))
               ELSE documentToJson(out)
    /\ UNCHANGED <<fn, arg, out, clientVars>>

CodecNext == EncodeValue \/ JsonToDocument \/ DocumentToJson \/ DecodeEncoded

SpecCodec == CodecInit /\ [][CodecNext]_vars

(***************************************************************************)
(* The client: its calls, step by step between awaits.                     *)
(*   pc: idle -> authorize (awaiting jwtClient.authorize) -> refreshed     *)
(*       (refreshAccessToken done, getHeaders not yet resumed) -> headers  *)
(*       (getHeaders has read the token and returned, the handler not yet  *)
(*       resumed) -> fetch (request sent, awaiting the response)           *)
(*       -> returned | threw -> idle                                       *)
(* Every await yields, so the steps of other calls may come between any    *)
(* two of these. A call keeps its arguments until its response arrives;    *)
(* nothing reads them afterwards. Time is counted in hours (3600 * 1000    *)
(* ms).                                                                    *)
(***************************************************************************)
Calls == {1}

IdleCall ==
    [pc |-> "idle", op |-> "none", path |-> Nil, data |-> Nil,
     updateFields |-> Nil, options |-> Nil, body |-> Nil, branch |-> "none",
     refreshNow |-> 0, sentAuthorize |-> FALSE, headers |-> Nil,
     sentFetch |-> FALSE, request |-> Nil, response |-> Nil,
     responseData |-> Nil, result |-> Nil, reported |-> <<>>]

\* Arguments and responses of the model.
RECURSIVE Seqs(_, _)
Seqs(S, n) == IF n = 0 THEN {<<>>} ELSE {<<x>> \o r : x \in S, r \in Seqs(S, n - 1)}

PathC == JStr(<<"c">>)
Paths == {PathC}
Str(piece) == JStr(<<piece>>)

DataObjects ==
    {JObj(<<>>),
     Obj1("name", Str("John Doe")),
     JObj(<<Prop("n", JNaN), Prop("createdAt", JDate(1))>>),
     Obj1("f", JFun),
     JObj(<<Prop("name", Str("John Doe")), Prop("tags", JArr(<<Str("x"), JFun>>))>>),
     Obj1("address", Obj1("city", JFun))}

UpdateFieldsArgs ==
    {JUndef, JArr(<<>>), JArr(<<Str("name"), Str("address.city")>>)}

Clause(field, op, value) == JArr(<<Str(field), Str(op), value>>)
Clauses ==
    {Clause("age", "GREATER_THAN", JNum(20)),
     Clause("name", "IN", JArr(<<Str("John Doe"), Str("Max Mustermann")>>)),
     Clause("address.city", "EQUAL", JNull),
     Clause("bornAt", "GREATER_THAN", JDate(1))}

Defined(props) == JObj(SelectSeq(props, LAMBDA pr : pr.v # JUndef))

WhereArgs ==
    {Defined(<<Prop("filters", JArr(fs)), Prop("operator", o)>>)
        : fs \in UNION {InjSeqs(Clauses, n) : n \in 0..MaxFilters},
          o \in {JUndef, Str("AND"), Str("OR")}}

OrderByArgs ==
    {JUndef,
     JArr(<<Obj1("field", Str("createdAt"))>>),
     JArr(<<JObj(<<Prop("field", Str("createdAt")), Prop("direction", Str("DESCENDING"))>>),
            Obj1("field", Str("name"))>>)}

OptionsArgs ==
    {JUndef}
    \cup {Obj1("where", w) : w \in WhereArgs}
    \cup {Defined(<<Prop("where", w), Prop("orderBy", o), Prop("limit", l), Prop("offset", f)>>)
            : w \in {JUndef, Obj1("filters", JArr(<<Clause("age", "GREATER_THAN", JNum(20))>>))},
              o \in OrderByArgs,
              l \in {JUndef, JNum(0), JNum(3)},
              f \in {JUndef, JNum(0), JNum(2)}}

DocName(id) == JStr(<<"projects", "/", "p", "/", "documents", "/", "c", "/", id>>)
Documents ==
    {JObj(<<Prop("name", DocName("doc1")),
            Prop("fields", Obj1("name", Obj1("stringValue", Str("A"))))>>),
     JObj(<<Prop("name", DocName("doc2")),
            Prop("fields", JObj(<<Prop("_id", Obj1("stringValue", Str("mine"))),
                                  Prop("age", Obj1("integerValue", JNum(20))),
                                  Prop("address",
                                       Obj1("mapValue", Obj1("fields",
                                           Obj1("city", Obj1("stringValue", Str("Moscow"))))))>>))>>),
     Obj1("name", DocName("doc3"))}

RemoteError ==
    JObj(<<Prop("code", JNum(403)), Prop("message", Str("Missing or insufficient permissions.")),
           Prop("status", Str("PERMISSION_DENIED"))>>)
ErrorBody == Obj1("error", RemoteError)
ReadTime == Prop("readTime", Str("2024-12-02T00:00:00.000000Z"))

Envelopes ==
    {JObj(<<ReadTime>>), ErrorBody}
    \cup {JObj(<<Prop("document", d), ReadTime>>) : d \in Documents}

\* The bodies a request of the call may be answered with.
Responses(call) ==
    IF call.branch = "query"
    THEN {ErrorBody} \cup {JArr(es) : es \in UNION {Seqs(Envelopes, n) : n \in 0..MaxEnvelopes}}
    ELSE IF call.op \in {"getDocumentsInCollection", "listDocumentsInCollection"}
    THEN {ErrorBody, JObj(<<>>)}
         \cup {Obj1("documents", JArr(ds))
                 : ds \in UNION {Seqs(Documents, n) : n \in 1..MaxEnvelopes}}
    ELSE {ErrorBody} \cup Documents

(***************************************************************************)
(* Two calls in progress on one client: the few arguments and responses    *)
(* they range over.                                                        *)
(***************************************************************************)
Concurrent == {1, 2}

Doc1 == CHOOSE d \in Documents : Get(d, "name") = DocName("doc1")
ConcurrentData == {Obj1("name", Str("John Doe")), Obj1("f", JFun)}
ConcurrentOptions ==
    {JUndef,
     Obj1("where", JObj(<<Prop("filters", JArr(<<Clause("age", "GREATER_THAN", JNum(20))>>)),
                          Prop("operator", Str("OR"))>>)),
     JObj(<<Prop("orderBy", JArr(<<Obj1("field", Str("createdAt"))>>)),
            Prop("limit", JNum(0))>>)}
ConcurrentResponses ==
    {ErrorBody, Doc1,
     JArr(<<JObj(<<Prop("document", Doc1), ReadTime>>)>>),
     Obj1("documents", JArr(<<Doc1>>))}

\* The values an argument or a response ranges over: all of S while the
\* client runs one call at a time, those of S among few while it runs two.
Within(S, few) == IF DOMAIN calls = Calls THEN S ELSE S \cap few

\* The access tokens jwtClient.authorize() may issue.
TokenValues == {Str("ya29.T1"), Str("ya29.T2")}
\* What jwtClient.authorize() resolves to at time t: expiry_date, when given,
\* is the absolute time one hour later. One token value is enough while the
\* client runs one call at a time; two calls may be issued different tokens,
\* and there the expiry_date is left out.
AuthorizeResults(t) ==
    {Defined(<<Prop("access_token", token), Prop("expiry_date", e)>>)
        : token \in (IF DOMAIN calls = Calls THEN {Str("ya29.T1")} ELSE TokenValues),
          e \in Within({JUndef, JNum(t + 1)}, {JUndef})}

Init ==
    /\ accessToken = JNull
    /\ tokenExpiry = 0
    /\ credentials = JObj(<<>>)
    /\ now = 1
    /\ calls = [c \in Calls |-> IdleCall]
    /\ fn = "none"
    /\ arg = Nil
    /\ out = Nil
    /\ back = Nil

Started(op, path) == [IdleCall EXCEPT !.op = op, !.path = path]
ThrewWith(call, e) == [call EXCEPT !.pc = "threw", !.result = e]

\* await this.getHeaders(), up to the first await of refreshAccessToken:
\* the clock is read; jwtClient.authorize() is called if there is no token or
\* it has expired.
getHeaders(c, call) ==
    /\ calls' = [calls EXCEPT ![c] =
                   IF ~Truthy(accessToken) \/ now >= tokenExpiry
                   THEN [call EXCEPT !.pc = "authorize", !.refreshNow = now,
                                     !.sentAuthorize = TRUE]
                   ELSE [call EXCEPT !.pc = "refreshed"]]
    /\ UNCHANGED <<accessToken, tokenExpiry, credentials, now, codecVars>>

Throws(c, call, e) ==
    /\ calls' = [calls EXCEPT ![c] = ThrewWith(call, e)]
    /\ UNCHANGED <<accessToken, tokenExpiry, credentials, now, codecVars>>

\* Mutant of createDocument: the headers are fetched before the body is encoded.
createDocument_HeadersFirst(c) ==
    /\ calls[c].pc = "idle"
    /\ \E path \in Paths, data \in Within(DataObjects, ConcurrentData) :
          getHeaders(c, [Started("createDocument", path) EXCEPT !.data = data])

\* createDocument(path, data): the body is encoded, then the headers awaited
createDocument(c) ==
    /\ calls[c].pc = "idle"
    /\ \E path \in Paths, data \in Within(DataObjects, ConcurrentData) :
          LET call == [Started("createDocument", path) EXCEPT !.data = data]
              body == jsonToDocument(data)
          IN  IF IsThrow(body) THEN Throws(c, call, body)
              ELSE getHeaders(c, [call EXCEPT !.body = body])

\* updateDocument(path, data, updateFields)
updateDocument(c) ==
    /\ calls[c].pc = "idle"
    /\ \E path \in Paths, data \in Within(DataObjects, ConcurrentData),
          updateFields \in Within(UpdateFieldsArgs, {JUndef}) :
          LET call == [Started("updateDocument", path) EXCEPT
                          !.data = data, !.updateFields = updateFields]
              body == jsonToDocument(data)
          IN  IF IsThrow(body) THEN Throws(c, call, body)
              ELSE getHeaders(c, [call EXCEPT !.body = body])

\* listDocumentsInCollection(path)
listDocumentsInCollection(c) ==
    /\ calls[c].pc = "idle"
    /\ \E path \in Paths : getHeaders(c, Started("listDocumentsInCollection", path))

\* getDocument(path)
getDocument(c) ==
    /\ calls[c].pc = "idle"
    /\ \E path \in Paths : getHeaders(c, Started("getDocument", path))

\* getDocumentsInCollection(path, options?)
getDocumentsInCollection(c) ==
    /\ calls[c].pc = "idle"
    /\ \E path \in Paths, options \in Within(OptionsArgs, ConcurrentOptions) :
          getHeaders(c, [Started("getDocumentsInCollection", path) EXCEPT
                            !.options = options])

\* refreshAccessToken resumes: authorize() has resolved with tokens.
\* now + (tokens.expiry_date || 3600) * 1000, in hours: 3600 * 1000 ms is one
\* hour, and an expiry_date of E hours counts as E * 1000 hours. The local
\* now is not read again and is dropped.
refreshAccessToken(c) ==
    /\ calls[c].pc = "authorize"
    /\ \E tokens \in AuthorizeResults(now) :
          /\ credentials' = tokens
          /\ accessToken' = Get(tokens, "access_token")
          /\ tokenExpiry' = calls[c].refreshNow
                + (IF Truthy(Get(tokens, "expiry_date"))
                   THEN (Get(tokens, "expiry_date").x2 \div 2) * 1000
                   ELSE 1)
    /\ calls' = [calls EXCEPT ![c].pc = "refreshed", ![c].refreshNow = 0]
    /\ UNCHANGED <<now, codecVars>>

\* jwtClient.authorize() rejects: the call throws.
AuthorizeRejects(c) ==
    /\ calls[c].pc = "authorize"
    /\ calls' = [calls EXCEPT ![c] =
                   ThrewWith(calls[c], Throw("Error", <<"authorize failed">>))]
    /\ UNCHANGED <<accessToken, tokenExpiry, credentials, now, codecVars>>

\* The url of updateDocument, with its update mask.
updateUrl(path, updateFields) ==
    firestoreBaseUrl \o <<"/">> \o path.s
    \o (IF Truthy(updateFields) /\ Len(updateFields.items) > 0
        THEN <<"?updateMask.fieldPaths=">>
             \o JoinFrom(updateFields.items, <<"&updateMask.fieldPaths=">>, 1)
        ELSE <<>>)

\* Mutant of Request: the body is kept in a place the calls share, and the
\* request carries the body of the first call while that call holds one.
Request_SharedBody(method, url, headers, body) ==
    [t |-> "request", method |-> method, url |-> JStr(url), headers |-> headers,
     body |-> IF calls[1].body # Nil THEN JSONStringify(calls[1].body) ELSE body]

\* fetch(url, { headers, body, method })
Request(method, url, headers, body) ==
    [t |-> "request", method |-> method, url |-> JStr(url), headers |-> headers,
     body |-> body]

\* The fetch of the call: the request, or what building it throws.
RequestOf(call) ==
    CASE call.op = "createDocument" ->
            Request("POST", firestoreBaseUrl \o <<"/">> \o call.path.s,
                    call.headers, JSONStringify(call.body))
      [] call.op \in {"listDocumentsInCollection", "getDocument"} ->
            Request("GET", firestoreBaseUrl \o <<"/">> \o call.path.s,
                    call.headers, JNull)
      [] call.op = "updateDocument" ->
            Request("PATCH", updateUrl(call.path, call.updateFields),
                    call.headers, JSONStringify(call.body))
      [] call.op = "getDocumentsInCollection" ->
            IF Truthy(call.options)
            THEN LET query == structuredQuery(call.path, call.options)
                 IN  IF IsThrow(query) THEN query
                     ELSE Request("POST", firestoreBaseUrl \o <<":runQuery">>,
                                  call.headers,
                                  JSONStringify(Obj1("structuredQuery", query)))
            ELSE Request("GET", firestoreBaseUrl \o <<"/">> \o call.path.s,
                         call.headers, JUndef)

\* if (options): the branch getDocumentsInCollection takes
BranchOf(call) ==
    IF call.op # "getDocumentsInCollection" THEN "none"
    ELSE IF Truthy(call.options) THEN "query" ELSE "list"

\* The headers are part of the request from here on; the handler does not
\* read its own copy again.
Fetched(call, request) ==
    IF IsThrow(request) THEN ThrewWith([call EXCEPT !.headers = Nil], request)
    ELSE [call EXCEPT !.pc = "fetch", !.headers = Nil, !.request = request,
                      !.sentFetch = TRUE]

\* The object getHeaders returns, given the token it reads.
Headers(token) ==
    JObj(<<Prop("accept", Str("*/*")),
           Prop("authorization", JStr(<<"Bearer ">> \o TemplateString(token))),
           Prop("sec-fetch-dest", Str("empty")),
           Prop("sec-fetch-mode", Str("cors")),
           Prop("sec-fetch-site", Str("same-origin")),
           Prop("sec-gpc", Str("1"))>>)

\* getHeaders resumes after await this.refreshAccessToken(): it reads
\* this.accessToken as it is now and returns the headers.
getHeadersResumes(c) ==
    /\ calls[c].pc = "refreshed"
    /\ calls' = [calls EXCEPT ![c].pc = "headers",
                              ![c].headers = Headers(accessToken)]
    /\ UNCHANGED <<accessToken, tokenExpiry, credentials, now, codecVars>>

\* The handler resumes after await this.getHeaders() and goes on to its
\* fetch with the headers it was given.
Fetch(c) ==
    /\ calls[c].pc = "headers"
    /\ calls' = [calls EXCEPT ![c] =
                   Fetched([calls[c] EXCEPT !.branch = BranchOf(calls[c])],
                           RequestOf(calls[c]))]
    /\ UNCHANGED <<accessToken, tokenExpiry, credentials, now, codecVars>>

\* What the handler makes of the response body.
ResultOf(call, data) ==
    CASE call.op = "createDocument" -> createDocumentResult(data)
      [] call.op = "updateDocument" -> updateDocumentResult(data)
      [] call.op = "listDocumentsInCollection" ->
            listDocumentsInCollectionResult(call.path, data)
      [] call.op = "getDocument" -> getDocumentResult(data)
      [] call.op = "getDocumentsInCollection" ->
            IF call.branch = "query" THEN queryResult(call.path, data)
            ELSE collectionResult(data)

Answered(call) ==
    [call EXCEPT !.data = Nil, !.updateFields = Nil, !.options = Nil,
                 !.body = Nil, !.request = Nil]

\* The response arrives and the handler runs to its end.
Respond(c) ==
    /\ calls[c].pc = "fetch"
    /\ \E data \in Within(Responses(calls[c]), ConcurrentResponses) :
          LET o == ResultOf(calls[c], data)
          IN  calls' = [calls EXCEPT ![c] =
                  [Answered(calls[c]) EXCEPT
                      !.pc = IF IsThrow(o.result) THEN "threw" ELSE "returned",
                      !.response = data, !.responseData = o.data,
                      !.result = o.result, !.reported = o.reported]]
    /\ UNCHANGED <<accessToken, tokenExpiry, credentials, now, codecVars>>

\* fetch or response.json() rejects: the call throws.
FetchRejects(c) ==
    /\ calls[c].pc = "fetch"
    /\ calls' = [calls EXCEPT ![c] =
                   ThrewWith(Answered(calls[c]), Throw("TypeError", <<"fetch failed">>))]
    /\ UNCHANGED <<accessToken, tokenExpiry, credentials, now, codecVars>>

\* The caller takes the outcome; the next call may start.
Finish(c) ==
    /\ calls[c].pc \in {"returned", "threw"}
    /\ calls' = [calls EXCEPT ![c] = IdleCall]
    /\ UNCHANGED <<accessToken, tokenExpiry, credentials, now, codecVars>>

\* An hour passes.
Tick ==
    /\ now <= MaxTime
    /\ now' = now + 1
    /\ UNCHANGED <<accessToken, tokenExpiry, credentials, calls, codecVars>>

Next ==
    \/ \E c \in Calls :
          \/ createDocument(c)
          \/ updateDocument(c)
          \/ listDocumentsInCollection(c)
          \/ getDocument(c)
          \/ getDocumentsInCollection(c)
          \/ refreshAccessToken(c)
          \/ AuthorizeRejects(c)
          \/ getHeadersResumes(c)
          \/ Fetch(c)
          \/ Respond(c)
          \/ FetchRejects(c)
          \/ Finish(c)
    \/ Tick

Spec == Init /\ [][Next]_vars

(***************************************************************************)
(* Two calls in progress on one client.                                    *)
(***************************************************************************)
InitConcurrent ==
    /\ accessToken = JNull
    /\ tokenExpiry = 0
    /\ credentials = JObj(<<>>)
    /\ now = 1
    /\ calls = [c \in Concurrent |-> IdleCall]
    /\ fn = "none"
    /\ arg = Nil
    /\ out = Nil
    /\ back = Nil

\* Any step of either call: the handlers run between their awaits in any order.
NextConcurrent ==
    \/ \E c \in Concurrent :
          \/ createDocument(c)
          \/ updateDocument(c)
          \/ listDocumentsInCollection(c)
          \/ getDocument(c)
          \/ getDocumentsInCollection(c)
          \/ refreshAccessToken(c)
          \/ AuthorizeRejects(c)
          \/ getHeadersResumes(c)
          \/ Fetch(c)
          \/ Respond(c)
          \/ FetchRejects(c)
          \/ Finish(c)
    \/ Tick

SpecConcurrent == InitConcurrent /\ [][NextConcurrent]_vars

(***************************************************************************)
(* Claims about the codec (checked under SpecCodec).                       *)
(***************************************************************************)
\* The native values the round-trip property covers: strings, booleans,
\* null, integers, arrays and nested objects of these.
RECURSIVE RoundTripSupported(_)
RoundTripSupported(v) ==
    CASE v.t \in {"string", "boolean", "null"} -> TRUE
      [] v.t = "number" -> NumberIsInteger(v)
      [] v.t = "array" -> \A i \in 1..Len(v.items) : RoundTripSupported(v.items[i])
      [] v.t = "object" -> \A i \in 1..Len(v.props) : RoundTripSupported(v.props[i].v)
      [] OTHER -> FALSE

\* C1: round trip. For every object o of supported native values (any field
\* names, any nesting), decoding the encoding gives o back:
\* documentToJson(jsonToDocument(o).fields) = o. (The claim's second equation,
\* documentToJson(encodeValue(v)) = v, fails as well: null comes back as the
\* string "NULL_VALUE", and encodeValue throws on a nested object.)
C1_RoundTrip ==
    (fn = "jsonToDocument" /\ RoundTripSupported(arg) /\ back # Nil)
        => back = arg

\* The encoding table of the specification (section 4.1), for C2.
RECURSIVE TableSupported(_)
TableSupported(v) ==
    CASE v.t \in {"string", "number", "boolean", "null", "date"} -> TRUE
      [] v.t = "array" -> \A i \in 1..Len(v.items) : TableSupported(v.items[i])
      [] v.t = "object" -> \A i \in 1..Len(v.props) : TableSupported(v.props[i].v)
      [] OTHER -> FALSE

RECURSIVE TableEncode(_)
TableEncode(v) ==
    CASE v.t = "string" -> Obj1("stringValue", v)
      [] v.t = "number" ->
            IF NumberIsInteger(v) THEN Obj1("integerValue", v)
            ELSE Obj1("doubleValue", v)
      [] v.t = "boolean" -> Obj1("booleanValue", v)
      [] v.t = "null" -> Obj1("nullValue", JStr(NULL_VALUE))
      [] v.t = "date" -> Obj1("timestampValue", JStr(DateISO[v.d]))
      [] v.t = "array" ->
            Obj1("arrayValue", Obj1("values",
                JArr([i \in 1..Len(v.items) |-> TableEncode(v.items[i])])))
      [] v.t = "object" ->
            Obj1("mapValue", Obj1("fields",
                JObj([i \in 1..Len(v.props) |->
                        Prop(v.props[i].k,
                             IF IsNaN(v.props[i].v)
                             THEN Obj1("doubleValue", JNum(0))
                             ELSE TableEncode(v.props[i].v))])))

\* C2: encodeValue returns the tagged value of the table for every supported
\* native value (a Date gives a timestampValue, a nested object a mapValue)
\* and throws only for a value of none of the supported types.
C2_EncodeValueTable ==
    fn = "encodeValue"
        => IF TableSupported(arg) THEN out = TableEncode(arg) ELSE IsThrow(out)

\* A number payload that is NaN, at any depth of a value.
RECURSIVE HasNaN(_)
HasNaN(v) ==
    CASE v.t = "number" -> v.nan
      [] v.t = "array" -> \E i \in 1..Len(v.items) : HasNaN(v.items[i])
      [] v.t = "object" -> \E i \in 1..Len(v.props) : HasNaN(v.props[i].v)
      [] OTHER -> FALSE

\* Wherever the native value v holds NaN, the wire value w encoding it holds
\* {doubleValue: 0}: at v itself, in the elements of an array, in the fields
\* of a nested map.
RECURSIVE NaNZeroed(_, _)
NaNZeroed(v, w) ==
    CASE IsNaN(v) -> w = Obj1("doubleValue", JNum(0))
      [] v.t = "array" ->
            \A i \in 1..Len(v.items) :
                NaNZeroed(v.items[i], Get(Get(w, "arrayValue"), "values").items[i])
      [] v.t = "object" ->
            \A i \in 1..Len(v.props) :
                NaNZeroed(v.props[i].v,
                          Get(Get(Get(w, "mapValue"), "fields"), v.props[i].k))
      [] OTHER -> TRUE

\* C7: jsonToDocument replaces NaN by zero: every NaN of the object, at a
\* top-level field, in an array element or in a field of a nested map, is
\* encoded as {doubleValue: 0}, and the document returned holds no NaN
\* payload at any depth. (NaN is never integral, so the integerValue form of
\* the replacement is never produced.)
C7_NaNReplaced ==
    (fn = "jsonToDocument" /\ ~IsThrow(out))
        => /\ ~HasNaN(out)
           /\ \A i \in 1..Len(arg.props) :
                 NaNZeroed(arg.props[i].v, Get(Get(out, "fields"), arg.props[i].k))

\* C7 witness: a document was returned for an object holding NaN below the
\* top level (in an array element or in a field of a nested map).
C7_Witness ==
    /\ fn = "jsonToDocument"
    /\ ~IsThrow(out)
    /\ \E i \in 1..Len(arg.props) :
          /\ arg.props[i].v.t \in {"array", "object"}
          /\ HasNaN(arg.props[i].v)

\* The field values C8 lists: strings, numbers other than NaN, booleans, null,
\* timestamps, arrays and nested objects of these.
RECURSIVE C8Listed(_)
C8Listed(v) ==
    CASE v.t \in {"string", "boolean", "null", "date"} -> TRUE
      [] v.t = "number" -> ~v.nan
      [] v.t = "array" -> \A i \in 1..Len(v.items) : C8Listed(v.items[i])
      [] v.t = "object" -> \A i \in 1..Len(v.props) : C8Listed(v.props[i].v)
      [] OTHER -> FALSE

\* C8: jsonToDocument applies encodeValue field by field: the wire value of
\* every field whose value is not NaN is identical to encodeValue of the
\* field's value, the null sentinel included.
C8_FieldByField ==
    fn = "jsonToDocument"
        => \A i \in 1..Len(arg.props) :
              C8Listed(arg.props[i].v)
                 => /\ ~IsThrow(out)
                    /\ Get(Get(out, "fields"), arg.props[i].k)
                          = encodeValue(arg.props[i].v)

(***************************************************************************)
(* Claims about the client (checked under Spec).                           *)
(***************************************************************************)
\* The where node the specification describes for a filter list: a composite
\* filter with operator AND and one field-filter leaf per clause, in order.
ExpectedWhere(filters) ==
    Obj1("compositeFilter",
         JObj(<<Prop("op", Str("AND")),
                Prop("filters",
                     JArr([i \in 1..Len(filters.items) |->
                             Obj1("fieldFilter",
                                  JObj(<<Prop("field",
                                              Obj1("fieldPath", filters.items[i].items[1])),
                                         Prop("op", filters.items[i].items[2]),
                                         Prop("value",
                                              TableEncode(filters.items[i].items[3]))>>))]))>>))

\* The call was given a query specification with a non-empty filter list.
HasFilters(call) ==
    /\ call.branch = "query"
    /\ HasKey(call.options, "where")
    /\ Len(Get(Get(call.options, "where"), "filters").items) > 0

\* C3: every structured query sent for a query specification with a non-empty
\* filter list has a where node that is a composite filter with operator AND,
\* whatever operator the caller gave, with exactly one field-filter leaf per
\* clause, in the caller's order, each holding the clause's field path, its
\* operator name unchanged and the encoded comparison value.
C3_WhereIsAndOfLeaves ==
    \A c \in Calls :
        (calls[c].pc = "fetch" /\ HasFilters(calls[c]))
            => Get(Get(calls[c].request.body, "structuredQuery"), "where")
                  = ExpectedWhere(Get(Get(calls[c].options, "where"), "filters"))

\* C3 witness: a query was sent for two clauses and the caller's operator OR.
C3_Witness ==
    \E c \in Calls :
        /\ calls[c].pc = "fetch"
        /\ HasFilters(calls[c])
        /\ Len(Get(Get(calls[c].options, "where"), "filters").items) = 2
        /\ Get(Get(calls[c].options, "where"), "operator") = Str("OR")

\* The error a query response carries: the top-level error, or the error of
\* the first envelope; Nil when it carries none.
ResponseError(data) ==
    IF data.t = "object" /\ HasKey(data, "error") THEN Get(data, "error")
    ELSE IF data.t = "array" /\ Len(data.items) > 0 /\ HasKey(data.items[1], "error")
    THEN Get(data.items[1], "error")
    ELSE Nil

\* The call is over and its request was answered with a body.
Settled(call) == call.pc \in {"returned", "threw"} /\ call.response # Nil

\* The positions of the envelopes that carry a document.
WithDocument(data) ==
    {i \in 1..Len(data.items) : HasKey(data.items[i], "document")}

\* C4: a query response that is not an error: every envelope without a
\* document is left out of the returned sequence, which has exactly one
\* element per envelope carrying a document (none when no envelope has one).
C4_NoDocumentExcluded ==
    \A c \in Calls :
        (/\ Settled(calls[c])
         /\ calls[c].branch = "query"
         /\ calls[c].response.t = "array"
         /\ ResponseError(calls[c].response) = Nil)
            => /\ calls[c].pc = "returned"
               /\ Len(calls[c].result.items)
                     = Cardinality(WithDocument(calls[c].response))

\* C5: a query response carrying an error, at the top level or in its first
\* envelope: the error is reported through errorHandler, the call does not
\* throw, and it returns the empty sequence (no decoded document).
C5_QueryErrorGivesEmpty ==
    \A c \in Calls :
        (/\ Settled(calls[c])
         /\ calls[c].branch = "query"
         /\ ResponseError(calls[c].response) # Nil)
            => /\ calls[c].pc = "returned"
               /\ calls[c].result = JArr(<<>>)
               /\ Len(calls[c].reported) = 1
               /\ calls[c].reported[1].errorCode
                     = Get(ResponseError(calls[c].response), "code")

\* C5 witness: the first envelope carried the error and the second a document.
C5_Witness ==
    \E c \in Calls :
        /\ calls[c].pc = "returned"
        /\ calls[c].branch = "query"
        /\ calls[c].response.t = "array"
        /\ Len(calls[c].response.items) = 2
        /\ HasKey(calls[c].response.items[1], "error")
        /\ HasKey(calls[c].response.items[2], "document")
        /\ Len(calls[c].reported) = 1

\* The last "/"-separated segment of a name.
LastSegment(s) ==
    LET i == CHOOSE i \in 0..Len(s) :
                /\ i = 0 \/ s[i] = "/"
                /\ \A j \in (i + 1)..Len(s) : s[j] # "/"
    IN  SubSeq(s, i + 1, Len(s))

\* row is the decoded object of the document's fields with _id set to the
\* last segment of the document's name.
IsRowOf(row, document) ==
    LET decoded == documentToJson(IF HasKey(document, "fields")
                                  THEN Get(document, "fields") ELSE JObj(<<>>))
        keys == {Keys(decoded)[i] : i \in 1..Len(Keys(decoded))}
    IN  /\ row.t = "object"
        /\ {Keys(row)[i] : i \in 1..Len(Keys(row))} = keys \cup {"_id"}
        /\ Len(Keys(row)) = Cardinality(keys \cup {"_id"})
        /\ Get(row, "_id") = JStr(LastSegment(Get(document, "name").s))
        /\ \A k \in keys \ {"_id"} : Get(row, k) = Get(decoded, k)

\* The documents of a response of getDocumentsInCollection, by position; Nil
\* where a query envelope carries none.
DocumentsOf(call) ==
    IF call.branch = "query"
    THEN [i \in 1..Len(call.response.items) |->
            IF HasKey(call.response.items[i], "document")
            THEN Get(call.response.items[i], "document") ELSE Nil]
    ELSE Get(call.response, "documents").items

\* C6: getDocumentsInCollection, filtered or not: the element returned for a
\* document is the decoded object of its fields with _id set to the last
\* "/"-separated segment of its name, also when the document has a field
\* named _id; the elements come in the order of the response.
C6_RowsCarryDocumentId ==
    \A c \in Calls :
        (/\ calls[c].op = "getDocumentsInCollection"
         /\ calls[c].pc = "returned"
         /\ ResponseError(calls[c].response) = Nil
         /\ \/ Len(calls[c].result.items) > 0
            \/ \E i \in 1..Len(DocumentsOf(calls[c])) : DocumentsOf(calls[c])[i] # Nil)
            => /\ Len(calls[c].result.items) = Len(DocumentsOf(calls[c]))
               /\ \A i \in 1..Len(DocumentsOf(calls[c])) :
                     DocumentsOf(calls[c])[i] # Nil
                        => IsRowOf(calls[c].result.items[i], DocumentsOf(calls[c])[i])

\* C6 witness: a query returned two documents, the second with a user field
\* named _id, and the second element carries the document's identifier.
C6_Witness ==
    \E c \in Calls :
        /\ calls[c].pc = "returned"
        /\ calls[c].branch = "query"
        /\ calls[c].response.t = "array"
        /\ Len(calls[c].response.items) = 2
        /\ OptGet(Get(calls[c].response.items[1], "document"), "name") = DocName("doc1")
        /\ OptGet(Get(calls[c].response.items[2], "document"), "name") = DocName("doc2")
        /\ Get(calls[c].result.items[1], "_id") = Str("doc1")
        /\ Get(calls[c].result.items[2], "_id") = Str("doc2")

\* A value of a type the encoder does not support, at any depth.
RECURSIVE HasUnsupported(_)
HasUnsupported(v) ==
    CASE v.t = "function" -> TRUE
      [] v.t = "array" -> \E i \in 1..Len(v.items) : HasUnsupported(v.items[i])
      [] v.t = "object" -> \E i \in 1..Len(v.props) : HasUnsupported(v.props[i].v)
      [] OTHER -> FALSE

\* The call writes a document whose data holds an unsupported value.
WritesUnsupported(call) ==
    /\ call.op \in {"createDocument", "updateDocument"}
    /\ call.data # Nil
    /\ HasUnsupported(call.data)

\* C9: createDocument and updateDocument fail fast: given data holding a
\* value of an unsupported type at any depth, the call throws before any
\* network call: jwtClient.authorize is not called, no fetch is issued, and
\* the step leaves the access token and its expiry as they were.
C9_FailFast ==
    /\ [](\A c \in Calls :
             WritesUnsupported(calls[c])
                => /\ calls[c].pc = "threw"
                   /\ calls[c].result.name = "Error"
                   /\ ~calls[c].sentAuthorize
                   /\ ~calls[c].sentFetch)
    /\ [][\A c \in Calls :
             (calls[c].pc = "idle" /\ WritesUnsupported(calls'[c]))
                => /\ accessToken' = accessToken
                   /\ tokenExpiry' = tokenExpiry]_vars

\* C9 witness: updateDocument threw on a function held by a nested object,
\* with a token stored by an earlier call.
C9_Witness ==
    \E c \in Calls :
        /\ calls[c].op = "updateDocument"
        /\ calls[c].pc = "threw"
        /\ calls[c].data = Obj1("address", Obj1("city", JFun))
        /\ ~calls[c].sentAuthorize
        /\ accessToken \in TokenValues

\* C10: a remote error on a path other than the filtered query does not abort
\* the call: when the response body carries an error object, the error is
\* reported through errorHandler and the call returns to its caller.
C10_RemoteErrorReturns ==
    \A c \in Calls :
        (/\ Settled(calls[c])
         /\ calls[c].branch # "query"
         /\ calls[c].response.t = "object"
         /\ HasKey(calls[c].response, "error"))
            => /\ calls[c].pc = "returned"
               /\ Len(calls[c].reported) = 1

\* The expiry of the stored token: the absolute expiry_date authorize reported
\* for it, or one hour after the refresh when it reported none.
ReportedExpiry ==
    IF Truthy(Get(credentials, "expiry_date"))
    THEN Get(credentials, "expiry_date").x2 \div 2
    ELSE tokenExpiry

\* C11: expiry-based token refresh. A call that reaches getHeaders when no
\* token is stored, or at or past the expiry of the stored token, calls
\* authorize before it sends its request; a call made before that expiry
\* reuses the stored token without calling authorize.
C11_RefreshWhenExpired ==
    [][\A c \in Calls :
          (calls[c].pc = "idle" /\ calls'[c].pc \in {"authorize", "refreshed"})
             => (calls'[c].pc = "authorize"
                    <=> (~Truthy(accessToken) \/ now >= ReportedExpiry))]_vars

\* The orderBy list the specification describes: one (field path, direction)
\* pair per entry, in order, the direction ASCENDING when the entry has none.
ExpectedOrderBy(orderBy) ==
    JArr([i \in 1..Len(orderBy.items) |->
            JObj(<<Prop("field", Obj1("fieldPath", Get(orderBy.items[i], "field"))),
                   Prop("direction",
                        IF HasKey(orderBy.items[i], "direction")
                        THEN Get(orderBy.items[i], "direction")
                        ELSE Str("ASCENDING"))>>)])

\* The optional parts of the query q are those of the query specification o.
OptionalPartsOf(q, o) ==
    /\ HasKey(q, "where") <=> HasKey(o, "where")
    /\ HasKey(q, "orderBy") <=> HasKey(o, "orderBy")
    /\ HasKey(o, "orderBy") => Get(q, "orderBy") = ExpectedOrderBy(Get(o, "orderBy"))
    /\ HasKey(q, "limit") <=> HasKey(o, "limit")
    /\ HasKey(o, "limit") => Get(q, "limit") = Obj1("value", Get(o, "limit"))
    /\ HasKey(q, "offset") <=> HasKey(o, "offset")
    /\ HasKey(o, "offset") => Get(q, "offset") = Get(o, "offset")
    /\ {Keys(q)[i] : i \in 1..Len(Keys(q))}
          \subseteq {"from", "where", "orderBy", "limit", "offset"}

\* C12: the optional parts of a query specification are in the structured
\* query sent exactly when the caller supplies them: orderBy as the list of
\* (field path, direction) pairs in the caller's order, direction ASCENDING
\* when omitted; limit as the cap and offset as the skip count, a value of 0
\* counting as supplied; a part not supplied is absent.
C12_OptionalParts ==
    \A c \in Calls :
        (calls[c].pc = "fetch" /\ calls[c].branch = "query")
            => OptionalPartsOf(Get(calls[c].request.body, "structuredQuery"),
                               calls[c].options)

\* C12 witness: a query was sent with limit 0, offset 0 and two orderBy
\* entries, the second without a direction, and without a where part.
C12_Witness ==
    \E c \in Calls :
        /\ calls[c].pc = "fetch"
        /\ calls[c].branch = "query"
        /\ Get(calls[c].options, "limit") = JNum(0)
        /\ Get(calls[c].options, "offset") = JNum(0)
        /\ ~HasKey(calls[c].options, "where")
        /\ HasKey(calls[c].options, "orderBy")
        /\ Len(Get(calls[c].options, "orderBy").items) = 2
        /\ ~HasKey(Get(calls[c].options, "orderBy").items[2], "direction")

\* w is a wire value tagged arrayValue, with a list of values or without the
\* values key.
IsArrayValue(w) ==
    /\ w.t = "object"
    /\ Len(w.props) = 1
    /\ w.props[1].k = "arrayValue"
    /\ w.props[1].v.t = "object"
    /\ Get(w.props[1].v, "values").t \in {"array", "undefined"}

\* The sequence the specification describes for a wire value tagged
\* arrayValue: each element decoded; empty when the values key is absent.
ExpectedArray(w) ==
    LET list == Get(Get(w, "arrayValue"), "values")
    IN  IF list = JUndef THEN JArr(<<>>)
        ELSE JArr([i \in 1..Len(list.items) |-> documentToJson(list.items[i])])

\* C14: decoding a wire value tagged arrayValue always yields a sequence: the
\* decoded elements, in order, and the empty sequence when the values key is
\* absent. Stated of documentToJson applied to a tagged value given to it,
\* and to the tagged value encodeValue returned for an array.
C14_ArrayValueDecodes ==
    /\ (fn = "documentToJson" /\ IsArrayValue(arg)) => out = ExpectedArray(arg)
    /\ (fn = "encodeValue" /\ back # Nil /\ IsArrayValue(out))
          => back = ExpectedArray(out)

(***************************************************************************)
(* Claims about concurrent calls (checked under SpecConcurrent).           *)
(***************************************************************************)
\* The call running alone on the same arguments, at its fetch.
AloneAtFetch(call) ==
    [IdleCall EXCEPT !.op = call.op, !.path = call.path, !.data = call.data,
                     !.updateFields = call.updateFields, !.options = call.options,
                     !.body = IF call.data = Nil THEN Nil ELSE jsonToDocument(call.data)]

\* The call running alone, answered with the same response.
AloneAnswered(call) ==
    ResultOf([IdleCall EXCEPT !.op = call.op, !.path = call.path,
                              !.branch = call.branch],
             call.response)

\* What each call sends and returns is what it sends and returns alone.
SameAsAlone ==
    \A c \in Concurrent :
        /\ calls[c].pc = "fetch"
              => calls[c].request.body = RequestOf(AloneAtFetch(calls[c])).body
        /\ Settled(calls[c])
              => /\ calls[c].result = AloneAnswered(calls[c]).result
                 /\ calls[c].reported = AloneAnswered(calls[c]).reported
        /\ (calls[c].data # Nil /\ IsThrow(jsonToDocument(calls[c].data)))
              => /\ calls[c].pc = "threw"
                 /\ calls[c].result = jsonToDocument(calls[c].data)

\* A step writes the token only when a refresh resumes, changes the record of
\* one call at most, and leaves the arguments of a call in progress as given.
StepsKeepToThemselves ==
    /\ (accessToken' # accessToken \/ tokenExpiry' # tokenExpiry)
          => \E c \in Concurrent :
                calls[c].pc = "authorize" /\ calls'[c].pc = "refreshed"
    /\ \A c, d \in Concurrent :
          (c # d /\ calls'[c] # calls[c]) => calls'[d] = calls[d]
    /\ \A c \in Concurrent :
          (calls[c].pc \in {"authorize", "refreshed", "headers"}
             /\ calls'[c].pc # "threw")
             => /\ calls'[c].path = calls[c].path
                /\ calls'[c].data = calls[c].data
                /\ calls'[c].updateFields = calls[c].updateFields
                /\ calls'[c].options = calls[c].options
                /\ calls'[c].body = calls[c].body

====
